---- MODULE Spec2Model ----
(***************************************************************************)
(* Token-sequence mutators of libafl/src/mutators/token_input_mutations.rs *)
(* over the TokenInput container of libafl/src/inputs/token.rs.            *)
(*                                                                         *)
(* One action per Mutator::mutate implementation.  Indices are 0-based as  *)
(* in the source; Option<X> is the sequence <<>> (None) or <<x>> (Some).   *)
(* `call` records what the last mutate call saw and drew, so that the      *)
(* properties can relate the sequence after a call to the one before it.   *)
(* The mutational stage drives the mutators: it transforms a corpus entry  *)
(* into a TokenInput, applies a mutator to it and hands the result on; the *)
(* mutator instances, and so their scratch buffers, live across inputs.    *)
(***************************************************************************)
EXTENDS Integers, Sequences, FiniteSets, TLC

VARIABLES stage, tokens, insert_buf, splice_buf, result, call

vars == <<stage, tokens, insert_buf, splice_buf, result, call>>

----------------------------------------------------------------------------
(* Bounds of the model *)

\* longest token sequence the input may hold
MaxLen == 4
\* longest token sequence of the other corpus entry
MaxOtherLen == 3
\* largest value drawn from the unbounded rand.next()
NextMax == 5

\* program constant
INSERT_TOKEN_MAX == 64

----------------------------------------------------------------------------
(* The Token capability, instantiated with a small bracket grammar *)

Tok == {"a", "(", ")", ";"}

\* "(" is closed by ")", ";" is closed by ";" itself, the others open nothing
closing_bracket(t) ==
    IF t = "(" THEN <<")">> ELSE IF t = ";" THEN <<";">> ELSE <<>>

\* T::new_rand: any token
new_rand == Tok

\* Token::replace_rand_similar: the default replaces by a fresh random token
replace_rand_similar(t) == new_rand

TokSeqs(n) == [1..n -> Tok]

TokSeqsUpTo(n) == UNION {TokSeqs(k) : k \in 0..n}

----------------------------------------------------------------------------
(* Random source *)

\* rand.below(n): a value in [0,n).  No value lies below a bound of 0: the
\* draw then either aborts (<<>>) or yields 0, depending on the build.
below(n) == IF n = 0 THEN {<<>>, <<0>>} ELSE {<<k>> : k \in 0..(n - 1)}

\* rand.next(): an unbounded value
next == 0..NextMax

min(a, b) == IF a <= b THEN a ELSE b

max(a, b) == IF a >= b THEN a ELSE b

----------------------------------------------------------------------------
(* TokenInput container *)

\* the slice s[a..b)
Slice(s, a, b) == SubSeq(s, a + 1, b)

truncate(v, len) == IF len >= Len(v) THEN v ELSE SubSeq(v, 1, len)

extend_from_slice(v, other) == v \o other

remove(v, index) == Slice(v, 0, index) \o Slice(v, index + 1, Len(v))

\* Vec::resize_with(n, || T::new_rand(rand)); fresh holds the drawn tokens
resize_with(v, n, fresh) == IF n <= Len(v) THEN SubSeq(v, 1, n) ELSE v \o fresh

\* number of tokens resize_with draws
resize_draws(v, n) == IF n <= Len(v) THEN 0 ELSE n - Len(v)

\* memmove inside one buffer: data[to..to+len) := old data[from..from+len)
buffer_self_copy(data, from, to, len) ==
    IF len # 0 /\ from # to
    THEN [i \in 1..Len(data) |->
            IF to < i /\ i <= to + len THEN data[from + (i - to)] ELSE data[i]]
    ELSE data

----------------------------------------------------------------------------
(* Region selection *)

RECURSIVE op_brs_from(_, _)
op_brs_from(input, idx) ==
    IF idx >= Len(input) THEN <<>>
    ELSE LET cl == closing_bracket(input[idx + 1]) IN
         (IF cl = <<>> THEN <<>> ELSE << <<cl[1], idx>> >>)
            \o op_brs_from(input, idx + 1)

\* the (closing value, index) pairs of all opening tokens, in order
op_brs(input) == op_brs_from(input, 0)

RECURSIVE position(_, _, _)
position(buf, cl_br, k) ==
    IF k >= Len(buf) THEN <<>>
    ELSE IF buf[k + 1] = cl_br THEN <<k>>
    ELSE position(buf, cl_br, k + 1)

locate_cl_br(cl_br, buf) == position(buf, cl_br, 0)

\* the values rand.choose may pick out of op_brs (one dummy pick if empty,
\* where rand_region returns before choosing)
Picks(input) ==
    IF op_brs(input) = <<>> THEN {0} ELSE 0..(Len(op_brs(input)) - 1)

\* the opener rand_region chose, as Option<index>
chosen_opener(input, pick) ==
    IF op_brs(input) = <<>> THEN <<>> ELSE <<op_brs(input)[pick + 1][2]>>

\* variant: the search for the closing value starts after the opener
rand_region_after_opener(input, pick) ==
    LET brs == op_brs(input) IN
    IF brs = <<>> THEN <<>>
    ELSE LET cl_br == brs[pick + 1][1]
             op_br_idx == brs[pick + 1][2]
             cl_br_idx == locate_cl_br(cl_br,
                              Slice(input, op_br_idx + 1, Len(input)))
         IN IF cl_br_idx = <<>> THEN <<>>
            ELSE <<[start |-> op_br_idx, end |-> cl_br_idx[1] + op_br_idx + 1]>>

rand_region(input, pick) ==
    LET brs == op_brs(input) IN
    IF brs = <<>> THEN <<>>
    ELSE LET cl_br == brs[pick + 1][1]
             op_br_idx == brs[pick + 1][2]
             cl_br_idx == locate_cl_br(cl_br, Slice(input, op_br_idx, Len(input)))
         IN IF cl_br_idx = <<>> THEN <<>>
            ELSE <<[start |-> op_br_idx, end |-> cl_br_idx[1] + op_br_idx]>>

----------------------------------------------------------------------------
(* Bodies of the mutators that edit a span *)

\* variant: the range includes its end, tokens[start..=end]
replace_range_inclusive(toks, start, end, fresh) ==
    [i \in 1..Len(toks) |->
        IF start < i /\ i <= end THEN fresh[i - start]
        ELSE IF i = end + 1 THEN "a" ELSE toks[i]]

\* for tok in &mut tokens[start..end] { *tok = ... }; fresh holds the new values
replace_range(toks, start, end, fresh) ==
    [i \in 1..Len(toks) |->
        IF start < i /\ i <= end THEN fresh[i - start] ELSE toks[i]]

\* variant: the truncation target is the length after the move
delete_range_gap_closed(toks, start, end) ==
    truncate(buffer_self_copy(toks, end, start, Len(toks) - end),
             Len(toks) - (end - start))

\* buffer_self_copy(tokens, end, start, len - end); input.truncate(end)
delete_range(toks, start, end) ==
    truncate(buffer_self_copy(toks, end, start, Len(toks) - end), end)

\* variant: the suffix saved to the scratch buffer starts one token late
insert_span_late_suffix(input, buf, token_nr, fresh, idx) ==
    LET buf1 == resize_with(buf, token_nr, fresh)
        buf2 == extend_from_slice(buf1, Slice(input, idx + 1, Len(input)))
        input1 == truncate(input, idx)
    IN [input |-> extend_from_slice(input1, buf2), buf |-> truncate(buf2, 0)]

\* TokenInsertMutator::mutate after the draws: the input and the scratch buffer
insert_span(input, buf, token_nr, fresh, idx) ==
    LET buf1 == resize_with(buf, token_nr, fresh)
        buf2 == extend_from_slice(buf1, Slice(input, idx, Len(input)))
        input1 == truncate(input, idx)
    IN [input |-> extend_from_slice(input1, buf2), buf |-> truncate(buf2, 0)]

\* variant: the local suffix is kept from region.start, not region.end
splice_region_keeps_region(input, region, other_input, other_region, buf) ==
    LET buf1 == extend_from_slice(buf,
                    Slice(other_input, other_region.start, other_region.end))
        buf2 == extend_from_slice(buf1, Slice(input, region.start, Len(input)))
        input1 == truncate(input, region.start)
    IN [input |-> extend_from_slice(input1, buf2), buf |-> truncate(buf2, 0)]

\* variant: the scratch buffer is not cleared at the end
splice_region_keeps_buf(input, region, other_input, other_region, buf) ==
    LET buf1 == extend_from_slice(buf,
                    Slice(other_input, other_region.start, other_region.end))
        buf2 == extend_from_slice(buf1, Slice(input, region.end, Len(input)))
        input1 == truncate(input, region.start)
    IN [input |-> extend_from_slice(input1, buf2), buf |-> buf2]

\* TokenSpliceRegionMutator::mutate once both regions are selected
splice_region(input, region, other_input, other_region, buf) ==
    LET buf1 == extend_from_slice(buf,
                    Slice(other_input, other_region.start, other_region.end))
        buf2 == extend_from_slice(buf1, Slice(input, region.end, Len(input)))
        input1 == truncate(input, region.start)
    IN [input |-> extend_from_slice(input1, buf2), buf |-> truncate(buf2, 0)]

----------------------------------------------------------------------------
(* State *)

NoCall ==
    [op |-> "none", pre |-> <<>>, opener |-> <<>>, span |-> <<>>,
     fresh |-> <<>>, nr |-> 0, other |-> <<>>, other_post |-> <<>>,
     ospan |-> <<>>]

\* what a call on `pre` records; the fields it does not use stay empty
Call(op, pre, opener, span, fresh) ==
    [op |-> op, pre |-> pre, opener |-> opener, span |-> span,
     fresh |-> fresh, nr |-> Len(fresh), other |-> <<>>, other_post |-> <<>>,
     ospan |-> <<>>]

Init ==
    /\ stage = "idle"
    /\ tokens = <<>>
    /\ insert_buf = <<>>
    /\ splice_buf = <<>>
    /\ result = "None"
    /\ call = NoCall

\* MutatedTransform::try_transform_from: the stage lexes a corpus entry into
\* the TokenInput to mutate; a lexer may produce any token sequence
try_transform_from ==
    /\ stage = "idle"
    /\ stage' = "input"
    /\ tokens' \in TokSeqsUpTo(MaxLen)
    /\ result' = "None"
    /\ call' = NoCall
    /\ UNCHANGED <<insert_buf, splice_buf>>

\* the stage is done with the input (lowered and executed after Mutated,
\* dropped after Skipped or an error); a panic ends the process instead
StageDone ==
    /\ stage = "mutated"
    /\ result # "Panic"
    /\ stage' = "idle"
    /\ tokens' = <<>>
    /\ result' = "None"
    /\ call' = NoCall
    /\ UNCHANGED <<insert_buf, splice_buf>>

\* a mutator is called on the transformed input
Running == stage = "input"

Return(res, toks, c) ==
    /\ stage' = "mutated"
    /\ result' = res
    /\ tokens' = toks
    /\ call' = c

----------------------------------------------------------------------------
(* Mutators that act on one token *)

TokenRandMutator ==
    /\ Running
    /\ IF tokens = <<>>
       THEN Return("Skipped", tokens, Call("rand", tokens, <<>>, <<>>, <<>>))
       ELSE \E idx \in 0..(Len(tokens) - 1), val \in new_rand :
              Return("Mutated", replace_range(tokens, idx, idx + 1, <<val>>),
                     Call("rand", tokens, <<>>,
                          <<[start |-> idx, end |-> idx + 1]>>, <<val>>))
    /\ UNCHANGED <<insert_buf, splice_buf>>

TokenDeleteMutator ==
    /\ Running
    /\ IF tokens = <<>>
       THEN Return("Skipped", tokens, Call("delete", tokens, <<>>, <<>>, <<>>))
       ELSE \E idx \in below(Len(tokens)) :
              Return("Mutated", remove(tokens, idx[1]),
                     Call("delete", tokens, <<>>,
                          <<[start |-> idx[1], end |-> idx[1] + 1]>>, <<>>))
    /\ UNCHANGED <<insert_buf, splice_buf>>

TokenRandSimilarMutator ==
    /\ Running
    /\ IF tokens = <<>>
       THEN Return("Skipped", tokens, Call("similar", tokens, <<>>, <<>>, <<>>))
       ELSE \E idx \in 0..(Len(tokens) - 1) :
            \E val \in replace_rand_similar(tokens[idx + 1]) :
              Return("Mutated", replace_range(tokens, idx, idx + 1, <<val>>),
                     Call("similar", tokens, <<>>,
                          <<[start |-> idx, end |-> idx + 1]>>, <<val>>))
    /\ UNCHANGED <<insert_buf, splice_buf>>

----------------------------------------------------------------------------
(* Mutators that rewrite a region *)

\* the values a loop over toks[start..end) may write, one draw per token
Draws(toks, start, end, similar) ==
    {fresh \in TokSeqs(end - start) :
        \A k \in 1..(end - start) :
            fresh[k] \in (IF similar THEN replace_rand_similar(toks[start + k])
                          ELSE new_rand)}

ReplaceRegion(op, similar) ==
    /\ Running
    /\ \E pick \in Picks(tokens) :
         LET region == rand_region(tokens, pick)
             opener == chosen_opener(tokens, pick)
         IN IF region = <<>>
            THEN Return("Skipped", tokens, Call(op, tokens, opener, <<>>, <<>>))
            ELSE \E fresh \in Draws(tokens, region[1].start, region[1].end, similar) :
                   Return("Mutated",
                          replace_range(tokens, region[1].start, region[1].end, fresh),
                          Call(op, tokens, opener, region, fresh))
    /\ UNCHANGED <<insert_buf, splice_buf>>

TokenReplaceRegionSimilarMutator == ReplaceRegion("region_similar", TRUE)

TokenReplaceRegionRandMutator == ReplaceRegion("region_rand", FALSE)

----------------------------------------------------------------------------
(* Mutators that override a span between two draws *)

TokenOverrideMutator ==
    /\ Running
    /\ IF tokens = <<>>
       THEN Return("Skipped", tokens, Call("override", tokens, <<>>, <<>>, <<>>))
       ELSE \E off1 \in next, off2 \in next :
              LET range == [start |-> min(off1, off2), end |-> max(off1, off2)]
              IN IF range.end > Len(tokens)
                 THEN \* slice index out of range
                      Return("Panic", tokens,
                             Call("override", tokens, <<>>, <<range>>, <<>>))
                 ELSE \E fresh \in Draws(tokens, range.start, range.end, FALSE) :
                        Return("Mutated",
                               replace_range(tokens, range.start, range.end, fresh),
                               Call("override", tokens, <<>>, <<range>>, fresh))
    /\ UNCHANGED <<insert_buf, splice_buf>>

TokenSimilarOverrideMutator ==
    /\ Running
    /\ IF tokens = <<>>
       THEN Return("Skipped", tokens,
                   Call("similar_override", tokens, <<>>, <<>>, <<>>))
       ELSE \E off1 \in below(Len(tokens)), off2 \in below(Len(tokens)) :
              LET range == [start |-> min(off1[1], off2[1]),
                            end |-> max(off1[1], off2[1])]
              IN \E fresh \in Draws(tokens, range.start, range.end, TRUE) :
                   Return("Mutated",
                          replace_range(tokens, range.start, range.end, fresh),
                          Call("similar_override", tokens, <<>>, <<range>>, fresh))
    /\ UNCHANGED <<insert_buf, splice_buf>>

----------------------------------------------------------------------------
(* Mutators that delete a span *)

TokenDeleteManyMutator ==
    /\ Running
    /\ \E off1 \in below(Len(tokens)), off2 \in below(Len(tokens)) :
         IF off1 = <<>> \/ off2 = <<>>
         THEN Return("Panic", tokens, Call("delete_many", tokens, <<>>, <<>>, <<>>))
         ELSE LET range == [start |-> min(off1[1], off2[1]),
                            end |-> max(off1[1], off2[1])]
              IN Return("Mutated", delete_range(tokens, range.start, range.end),
                        Call("delete_many", tokens, <<>>, <<range>>, <<>>))
    /\ UNCHANGED <<insert_buf, splice_buf>>

TokenDeleteRegionMutator ==
    /\ Running
    /\ \E pick \in Picks(tokens) :
         LET range == rand_region(tokens, pick)
             opener == chosen_opener(tokens, pick)
         IN IF range = <<>>
            THEN Return("Skipped", tokens,
                        Call("delete_region", tokens, opener, <<>>, <<>>))
            ELSE Return("Mutated",
                        delete_range(tokens, range[1].start, range[1].end),
                        Call("delete_region", tokens, opener, range, <<>>))
    /\ UNCHANGED <<insert_buf, splice_buf>>

----------------------------------------------------------------------------
(* Mutators with a scratch buffer *)

TokenInsertMutator ==
    /\ Running
    /\ \E token_nr \in 0..(INSERT_TOKEN_MAX - 1) :
         /\ Len(tokens) + token_nr <= MaxLen
         /\ \E fresh \in TokSeqs(resize_draws(insert_buf, token_nr)) :
            \E idx \in below(Len(tokens)) :
              IF idx = <<>>
              THEN /\ Return("Panic", tokens,
                             [Call("insert", tokens, <<>>, <<>>, fresh)
                                 EXCEPT !.nr = token_nr])
                   /\ insert_buf' = resize_with(insert_buf, token_nr, fresh)
              ELSE LET r == insert_span(tokens, insert_buf, token_nr, fresh, idx[1])
                   IN /\ Return("Mutated", r.input,
                                [Call("insert", tokens, <<>>,
                                      <<[start |-> idx[1], end |-> idx[1]]>>,
                                      fresh) EXCEPT !.nr = token_nr])
                      /\ insert_buf' = r.buf
    /\ UNCHANGED splice_buf

\* the token forms a corpus entry may have
OtherInputs == TokSeqsUpTo(MaxOtherLen)

TokenSpliceRegionMutator ==
    /\ Running
    /\ \E pick \in Picks(tokens) :
         LET region == rand_region(tokens, pick)
             opener == chosen_opener(tokens, pick)
             c == Call("splice", tokens, opener, region, <<>>)
         IN IF region = <<>>
            THEN /\ Return("Skipped", tokens, c)
                 /\ UNCHANGED splice_buf
            ELSE \E loaded \in BOOLEAN, other_input \in OtherInputs :
                   IF ~loaded
                   THEN \* corpus().get(idx)? or load_input(..)? failed
                        /\ Return("Error", tokens, c)
                        /\ UNCHANGED splice_buf
                   ELSE \E opick \in Picks(other_input) :
                          LET other_region == rand_region(other_input, opick)
                              co == [c EXCEPT !.other = other_input,
                                              !.other_post = other_input,
                                              !.ospan = other_region]
                          IN IF other_region = <<>>
                             THEN /\ Return("Skipped", tokens, co)
                                  /\ UNCHANGED splice_buf
                             ELSE LET r == splice_region(tokens, region[1],
                                              other_input, other_region[1],
                                              splice_buf)
                                  IN /\ Len(r.input) <= MaxLen
                                     /\ Return("Mutated", r.input, co)
                                     /\ splice_buf' = r.buf
    /\ UNCHANGED insert_buf

----------------------------------------------------------------------------

Next ==
    \/ try_transform_from
    \/ StageDone
    \/ TokenRandMutator
    \/ TokenDeleteMutator
    \/ TokenRandSimilarMutator
    \/ TokenReplaceRegionSimilarMutator
    \/ TokenReplaceRegionRandMutator
    \/ TokenOverrideMutator
    \/ TokenSimilarOverrideMutator
    \/ TokenDeleteManyMutator
    \/ TokenDeleteRegionMutator
    \/ TokenInsertMutator
    \/ TokenSpliceRegionMutator

Spec == Init /\ [][Next]_vars

----------------------------------------------------------------------------
(* Properties.  They are stated over the sequence before the call          *)
(* (call.pre), what the call drew (call.span, call.fresh, ...) and the      *)
(* sequence after it (tokens); none of them uses the operators above that   *)
(* compute the result.                                                      *)

Called == stage = "mutated"

DeleteOps == {"delete_many", "delete_region"}

RegionReplaceOps == {"region_similar", "region_rand"}

RegionOps == RegionReplaceOps \cup {"delete_region", "splice"}

IsPrefix(a, b) == Len(a) <= Len(b) /\ SubSeq(b, 1, Len(a)) = a

\* the sequence before the call with [start, end) removed
GapClosed(pre, start, end) == Slice(pre, 0, start) \o Slice(pre, end, Len(pre))

\* C1: after delete-span or delete-region on the span [start,end) the
\* sequence is the original prefix [0,start) followed by the original
\* suffix [end,len), of length len - (end - start).
C1_GapClosing ==
    (Called /\ call.op \in DeleteOps /\ result = "Mutated") =>
        LET pre == call.pre
            sp == call.span[1]
        IN /\ tokens = GapClosed(pre, sp.start, sp.end)
           /\ Len(tokens) = Len(pre) - (sp.end - sp.start)

\* C2: delete-span or delete-region on an empty span (start = end) reports
\* Mutated and leaves the sequence as it was.
C2_EmptySpanIsNoOp ==
    (Called /\ call.op \in DeleteOps /\ call.span # <<>>
        /\ call.span[1].start = call.span[1].end) =>
        (result = "Mutated" /\ tokens = call.pre)

\* C3: on a non-empty sequence bounded-span-override forms a range inside
\* [0,len], does not panic, replaces only tokens inside the range, keeps the
\* length and returns Mutated.
C3_OverrideInBounds ==
    (Called /\ call.op = "override" /\ call.pre # <<>>) =>
        LET pre == call.pre
            sp == call.span[1]
        IN /\ result = "Mutated"
           /\ 0 <= sp.start /\ sp.start <= sp.end /\ sp.end <= Len(pre)
           /\ Len(tokens) = Len(pre)
           /\ \A i \in 0..(Len(pre) - 1) :
                (i < sp.start \/ i >= sp.end) => tokens[i + 1] = pre[i + 1]

\* the indices of the tokens of input that expose a closing value
Openers(input) ==
    {i \in 0..(Len(input) - 1) : closing_bracket(input[i + 1]) # <<>>}

\* the indices at or after i whose token equals the closing value of token i
Closers(input, i) ==
    {j \in i..(Len(input) - 1) : <<input[j + 1]>> = closing_bracket(input[i + 1])}

\* a returned range is well formed: start <= end < len, the token at end is
\* the closing value of the token at start and no token before it is
WellFormedRegion(input, span) ==
    span # <<>> =>
        LET sp == span[1] IN
        /\ 0 <= sp.start /\ sp.start <= sp.end /\ sp.end < Len(input)
        /\ <<input[sp.end + 1]>> = closing_bracket(input[sp.start + 1])
        /\ \A k \in sp.start..(sp.end - 1) :
             <<input[k + 1]>> # closing_bracket(input[sp.start + 1])

\* C4: region selection returns none if no token exposes a closing value;
\* otherwise, for the chosen opener i, the range [i, j) with j the smallest
\* index >= i whose token equals the closing value of token i, or none if
\* there is no such j.  A returned range is well formed.
C4_RegionSelection ==
    (Called /\ call.op \in RegionOps) =>
        LET input == call.pre IN
        /\ Openers(input) = {} => (call.opener = <<>> /\ call.span = <<>>)
        /\ Openers(input) # {} =>
             /\ call.opener # <<>>
             /\ call.opener[1] \in Openers(input)
             /\ LET i == call.opener[1]
                    J == Closers(input, i)
                IN IF J = {} THEN call.span = <<>>
                   ELSE /\ call.span # <<>>
                        /\ call.span[1].start = i
                        /\ call.span[1].end \in J
                        /\ \A j \in J : call.span[1].end <= j
        /\ WellFormedRegion(input, call.span)
        /\ WellFormedRegion(call.other, call.ospan)

C4_Witness ==
    /\ Called
    /\ call.op = "region_rand"
    /\ call.pre = <<"a", "(", "a", ")">>
    /\ call.span = <<[start |-> 1, end |-> 3]>>

\* C5: region-similar-replace and region-random-replace keep the length and
\* every token outside the selected region [start,end), the closing token at
\* end included; with no region they return Skipped and change nothing.
C5_RegionReplaceFrame ==
    (Called /\ call.op \in RegionReplaceOps) =>
        LET pre == call.pre IN
        /\ Len(tokens) = Len(pre)
        /\ call.span = <<>> => (result = "Skipped" /\ tokens = pre)
        /\ call.span # <<>> =>
             /\ result = "Mutated"
             /\ \A i \in 0..(Len(pre) - 1) :
                  (i < call.span[1].start \/ i >= call.span[1].end)
                      => tokens[i + 1] = pre[i + 1]

C5_Witness ==
    /\ Called
    /\ call.op = "region_rand"
    /\ call.pre = <<"a", "(", "a", ")">>
    /\ call.span = <<[start |-> 1, end |-> 3]>>
    /\ tokens = <<"a", ";", ")", ")">>

\* C6: splice-region with a local region [s,e) and a region [os,oe) of the
\* other entry yields local[0,s) ++ other[os,oe) ++ local[e,len) and leaves
\* the other sequence as it was; if either sequence has no region it
\* returns Skipped and changes neither sequence.
C6_Splice ==
    (Called /\ call.op = "splice" /\ result # "Error") =>
        LET pre == call.pre IN
        /\ call.other_post = call.other
        /\ (call.span # <<>> /\ call.ospan # <<>>) =>
             /\ result = "Mutated"
             /\ tokens = Slice(pre, 0, call.span[1].start)
                            \o Slice(call.other, call.ospan[1].start,
                                     call.ospan[1].end)
                            \o Slice(pre, call.span[1].end, Len(pre))
        /\ (call.span = <<>> \/ call.ospan = <<>>) =>
             (result = "Skipped" /\ tokens = pre)

C6_Witness ==
    /\ Called
    /\ call.op = "splice"
    /\ result = "Mutated"
    /\ call.pre = <<"(", ")", "a">>
    /\ call.span = <<[start |-> 0, end |-> 1]>>
    /\ call.other = <<"(", ";", ")">>
    /\ call.ospan = <<[start |-> 0, end |-> 2]>>
    /\ tokens = <<"(", ";", ")", "a">>

\* the mutators that skip an empty sequence
SkipsEmpty ==
    {"rand", "delete", "similar", "region_similar", "region_rand",
     "delete_region"}

C8_Insert ==
    (Called /\ call.op = "insert" /\ result = "Mutated") =>
        LET pre == call.pre
            idx == call.span[1].start
        IN /\ Len(call.fresh) = call.nr
           /\ call.nr <= INSERT_TOKEN_MAX
           /\ tokens = Slice(pre, 0, idx) \o call.fresh \o Slice(pre, idx, Len(pre))
           /\ Len(tokens) = Len(pre) + call.nr

C8_Witness ==
    /\ Called
    /\ call.op = "insert"
    /\ result = "Mutated"
    /\ call.pre = <<"a", ")">>
    /\ call.span[1].start = 1
    /\ tokens = <<"a", "(", ";", ")">>

\* C9 as stated: the truncation target end is the correct length only when
\* start = 0; with start = 0 the result is the gap-closed sequence, with
\* start # 0 it is the gap-closed sequence followed by stale elements.
C9_TruncateOnlyRightAtStartZero ==
    (Called /\ call.op \in DeleteOps /\ result = "Mutated") =>
        LET pre == call.pre
            sp == call.span[1]
        IN /\ (sp.end = Len(pre) - (sp.end - sp.start)) => sp.start = 0
           /\ sp.start = 0 => tokens = GapClosed(pre, 0, sp.end)
           /\ sp.start # 0 => IsPrefix(GapClosed(pre, sp.start, sp.end), tokens)

\* C9 amended: the result is the first `end` elements of the gap-closed
\* sequence followed by the stale tail [start+len-end, len); it is the
\* gap-closed sequence exactly when 2*end = len + start, the gap-closed
\* sequence followed by stale elements when 2*end > len + start, and a
\* proper prefix of it (surviving tokens are lost) when 2*end < len + start.
C9_TruncateToEnd ==
    (Called /\ call.op \in DeleteOps /\ result = "Mutated") =>
        LET pre == call.pre
            sp == call.span[1]
            len == Len(pre)
            closed == GapClosed(pre, sp.start, sp.end)
            moved == closed \o Slice(pre, sp.start + len - sp.end, len)
        IN /\ tokens = Slice(moved, 0, sp.end)
           /\ (tokens = closed) <=> (2 * sp.end = len + sp.start)
           /\ 2 * sp.end > len + sp.start =>
                tokens = closed \o Slice(pre, sp.start + len - sp.end, sp.end)
           /\ 2 * sp.end < len + sp.start =>
                (IsPrefix(tokens, closed) /\ Len(tokens) < Len(closed))

C9_Witness ==
    /\ Called
    /\ call.op = "delete_many"
    /\ call.pre = <<"a", "(", ";", ")">>
    /\ call.span = <<[start |-> 1, end |-> 3]>>
    /\ tokens = <<"a", ")", ";">>

\* C10: the scratch buffers of TokenInsertMutator and TokenSpliceRegionMutator
\* are empty before and after every mutate call that returns (Mutated,
\* Skipped or an error), whatever calls came before.
C10_ScratchEmpty ==
    result # "Panic" => (insert_buf = <<>> /\ splice_buf = <<>>)

C10_Witness ==
    /\ Called
    /\ call.op = "splice"
    /\ result = "Skipped"
    /\ call.span # <<>>
    /\ call.other = <<"(", "a">>
    /\ splice_buf = <<>>

====
